---- MODULE Spec2Model ----
(***************************************************************************)
(* State-machine model of coast_crawl.py: the DB collections (domains,     *)
(* to_crawl, crawled_links, pages, cannot_crawl), the crawl coordinator    *)
(* loop and the per-domain loop of crawl_domain, one action per step       *)
(* between two points at which the process can be killed and restarted     *)
(* on the same store.                                                      *)
(***************************************************************************)
EXTENDS Integers, Sequences, FiniteSets, TLC

\* ------------------------------------------------------------------------
\* Bounds of the model
\* ------------------------------------------------------------------------
\* number of calls of crawl() on one store (the first run and its restarts)
MaxRuns == 2
\* number of <a href> links of the whole site (edges of the link graph)
MaxEdges == 2
\* number of paths the site's robots.txt disallows
MaxDenied == 1
\* number of fetches that fail (get_html returning a failure string)
MaxFailures == 1
\* number of records of cannot_crawl
MaxBlocked == 3

\* ------------------------------------------------------------------------
\* URLs: <<scheme, netloc, path>>
\* ------------------------------------------------------------------------
Root == <<"https", "example.test", "/">>
PageA == <<"https", "example.test", "/a">>
PageB == <<"https", "example.test", "/b">>
Sub == <<"https", "sub.example.test", "/a">>
Other == <<"https", "other.test", "/x">>

\* the pages of example.test, and every page a fetch can be asked for
InHost == {Root, PageA, PageB}
URLs == InHost \cup {Sub, Other}
Pages == InHost \cup {Other}

\* the seed lists crawl() is called with
SeedLists == {<<Root>>}

\* urlparse(url).netloc
netloc(url) == url[2]

\* ------------------------------------------------------------------------
\* The environment: the web and the robots.txt of the site
\* ------------------------------------------------------------------------
Edges(w) == {e \in Pages \X URLs : e[2] \in w[e[1]]}

\* the pages of the site that a chain of links leads to from the root
RECURSIVE Reach(_, _)
Reach(w, S) ==
    LET T == S \cup {v \in InHost : \E u \in S : v \in w[u]}
    IN  IF T = S THEN S ELSE Reach(w, T)

\* the link graphs: the hrefs of the <a> elements of each page (a page no
\* link leads to is never fetched: it is given no links)
SmallWebs ==
    {w \in [Pages -> SUBSET URLs] :
        /\ Cardinality(Edges(w)) <= MaxEdges
        /\ \A u \in Pages \ Reach(w, {Root}) : w[u] = {}}

\* the link graph of the end-to-end scenario: the root page links to /a, /b
\* and https://other.test/x, which link nowhere
E2EWeb == [u \in Pages |-> IF u = Root THEN {PageA, PageB, Other} ELSE {}]

Webs == SmallWebs \cup {E2EWeb}

\* the sets of URLs a robots.txt denies (can_fetch answers False)
Policies == {d \in SUBSET InHost : Cardinality(d) <= MaxDenied}

\* what get_html returns: the document, or one of its two failure strings
FailedStatus == <<"Failed to get html, status: ", <<>>>>
FailedException == <<"-1: ", <<>>>>
Outcomes == {"ok", "status", "exception"}

\* the text of the page at url (r.data.decode)
Document(url) == <<"html", url>>

get_html(url, outcome) ==
    CASE outcome = "ok" -> Document(url)
      [] outcome = "status" -> FailedStatus
      [] outcome = "exception" -> FailedException

IsFailure(html) == html \in {FailedStatus, FailedException}

\* ------------------------------------------------------------------------
\* DB
\* ------------------------------------------------------------------------
VARIABLES
    domains,        \* db.domains: sequence of [domain, status], insertion order
    to_crawl,       \* db.to_crawl: sequence of urls, insertion order
    crawled_links,  \* db.crawled_links: sequence of urls, insertion order
    pages,          \* db.pages: sequence of [url, html], insertion order
    cannot_crawl,   \* db.cannot_crawl: sequence of [url, reason]
    pc,             \* position of the process
    cur,            \* crawl: domain_to_crawl["domain"] / crawl_domain: domain
    rp,             \* crawl_domain: rp, the urls its can_fetch denies
    url,            \* crawl_domain: the local variable url
    html,           \* crawl_domain: the local variable html
    todo,           \* crawl_domain: what "for url in set(all_links)" has left
    web,            \* environment: the link graph
    deny,           \* environment: what the site's robots.txt denies
    runs,           \* number of calls of crawl() so far
    fetched,        \* history: the urls get_all_links was called on
    refetched,      \* history: the urls it was called on more than once
    dequeued,       \* history: the url the current iteration dequeued
    failures,       \* history: number of fetches that failed
    resumed,        \* history: this run found a PENDING domain and a queue
    entered,        \* history: this run has called crawl_domain
    atCrash         \* history: the frontier when the process last died

vars == <<domains, to_crawl, crawled_links, pages, cannot_crawl, pc, cur, rp,
          url, html, todo, web, deny, runs, fetched, refetched, dequeued, failures,
          resumed, entered, atCrash>>

None == <<>>

\* __record_exists_in_table
record_exists_in_table(table, u) == \E i \in DOMAIN table : table[i] = u

url_exists_in_to_crawl(u) == record_exists_in_table(to_crawl, u)

\* a test of crawled_links that finds nothing
url_exists_in_crawled_never(u) == FALSE

url_exists_in_crawled(u) == record_exists_in_table(crawled_links, u)

\* __add_url_to_table: insert_one, no uniqueness check
add_url_to_table(table, u) == Append(table, u)

\* a remove that deletes the first matching record only (delete_one)
remove_url_to_crawl_one(table, u) ==
    LET hits == {i \in DOMAIN table : table[i] = u}
        first == CHOOSE i \in hits : \A j \in hits : i <= j
    IN  IF hits = {} THEN table
        ELSE SubSeq(table, 1, first - 1) \o SubSeq(table, first + 1, Len(table))

\* remove({"url": url}) deletes every matching record
remove_url_to_crawl(table, u) == SelectSeq(table, LAMBDA v : v # u)

\* a count test that always answers "nothing left"
any_left_to_crawl_never == FALSE

any_left_to_crawl == Len(to_crawl) # 0

get_url_to_crawl == to_crawl[1]

\* insert_one, no uniqueness check
add_page(pgs, u, h) == Append(pgs, [url |-> u, html |-> h])

domain_exists(doms, d) == \E i \in DOMAIN doms : doms[i].domain = d

RECURSIVE add_new_domains(_, _)
add_new_domains(doms, seeds) ==
    IF seeds = <<>> THEN doms
    ELSE add_new_domains(
            IF domain_exists(doms, Head(seeds)) THEN doms
            ELSE Append(doms, [domain |-> Head(seeds), status |-> "PENDING"]),
            Tail(seeds))

\* find() without the status filter: every domain record
get_pending_domains_unfiltered == domains

get_pending_domains == SelectSeq(domains, LAMBDA r : r.status = "PENDING")

\* update_one({"domain": d}, {"$set": post}): the first matching record
set_crawled(doms, d) ==
    LET hits == {i \in DOMAIN doms : doms[i].domain = d}
        first == CHOOSE i \in hits : \A j \in hits : i <= j
    IN  IF hits = {} THEN doms
        ELSE [doms EXCEPT ![first] = [domain |-> d, status |-> "CRAWLED"]]

\* ------------------------------------------------------------------------
\* get_all_links: the hrefs of the fetched document whose netloc is the
\* seed's
\* ------------------------------------------------------------------------
hrefs(h) == IF h[1] = "html" /\ h[2] \in DOMAIN web THEN web[h[2]] ELSE {}

\* get_all_links without the comparison of line 163
get_all_links_unfiltered(h, seed_domain) == hrefs(h)

get_all_links(h, seed_domain) ==
    {l \in hrefs(h) : netloc(l) = seed_domain}

\* ------------------------------------------------------------------------
\* Init: an empty store, no process
\* ------------------------------------------------------------------------
Init ==
    /\ domains = <<>>
    /\ to_crawl = <<>>
    /\ crawled_links = <<>>
    /\ pages = <<>>
    /\ cannot_crawl = <<>>
    /\ pc = "stopped"
    /\ cur = None
    /\ rp = {}
    /\ url = None
    /\ html = None
    /\ todo = {}
    /\ web \in Webs
    /\ deny \in Policies
    /\ runs = 0
    /\ fetched = {}
    /\ refetched = {}
    /\ dequeued = None
    /\ failures = 0
    /\ resumed = FALSE
    /\ entered = FALSE
    /\ atCrash = {}

Stopped == pc \in {"stopped", "returned", "killed", "aborted"}

Running == pc \in {"select", "robots", "loop", "check", "links", "record",
                   "page"}

\* crawl(domains), lines 247-250
Crawl(seeds) ==
    /\ Stopped
    /\ runs < MaxRuns
    /\ runs' = runs + 1
    /\ domains' = add_new_domains(domains, seeds)
    /\ pc' = "select"
    /\ resumed' = (Len(get_pending_domains) # 0 /\ any_left_to_crawl)
    /\ entered' = FALSE
    /\ UNCHANGED <<to_crawl, crawled_links, pages, cannot_crawl, cur, rp, url,
                   html, todo, web, deny, fetched, refetched, dequeued, failures, atCrash>>

\* crawl, lines 253-257: no PENDING domain is left
Return ==
    /\ pc = "select"
    /\ Len(get_pending_domains) = 0
    /\ pc' = "returned"
    /\ UNCHANGED <<domains, to_crawl, crawled_links, pages, cannot_crawl, cur,
                   rp, url, html, todo, web, deny, runs, fetched, refetched, dequeued, failures,
          resumed, entered, atCrash>>

\* crawl, lines 258-261, and crawl_domain, lines 196-197: the seed insert
EnterDomain ==
    /\ pc = "select"
    /\ Len(get_pending_domains) # 0
    /\ cur' = get_pending_domains[1].domain
    /\ to_crawl' = add_url_to_table(to_crawl, cur')
    /\ pc' = "robots"
    /\ entered' = TRUE
    /\ UNCHANGED <<domains, crawled_links, pages, cannot_crawl, rp, url, html, todo,
                   web, deny, runs, fetched, refetched, dequeued, failures, resumed, atCrash>>

\* crawl_domain, line 199: rp.read() returns
LoadRobots ==
    /\ pc = "robots"
    /\ rp' = deny
    /\ pc' = "loop"
    /\ UNCHANGED <<domains, to_crawl, crawled_links, pages, cannot_crawl, cur,
                   url, html, todo, web, deny, runs, fetched, refetched, dequeued, failures,
          resumed, entered, atCrash>>

\* crawl_domain, line 199: rp.read() raises (urlopen cannot reach the host),
\* nothing catches it and crawl() ends with the exception
RobotsError ==
    /\ pc = "robots"
    /\ pc' = "aborted"
    /\ cur' = None
    /\ UNCHANGED <<domains, to_crawl, crawled_links, pages, cannot_crawl, rp,
                   url, html, todo, web, deny, runs, fetched, refetched, dequeued, failures,
          resumed, entered, atCrash>>

\* crawl_domain, lines 209-211
Dequeue ==
    /\ pc = "loop"
    /\ any_left_to_crawl
    /\ url' = get_url_to_crawl
    /\ dequeued' = url'
    /\ to_crawl' = remove_url_to_crawl(to_crawl, url')
    /\ pc' = "check"
    /\ UNCHANGED <<domains, crawled_links, pages, cannot_crawl, cur, rp, html, todo,
                   web, deny, runs, fetched, refetched, failures, resumed, entered, atCrash>>

\* a crawler that "does not take into account the robots.txt file"
can_fetch_ignored(policy, u) == TRUE

\* rp.can_fetch("*", url)
can_fetch(policy, u) == u \notin policy

BlockedReason == "blocked by robots.txt"

\* crawl_domain, lines 213, 228-230 (url and html are not read again before
\* lines 210 and 216 assign them: the model forgets them here)
Blocked ==
    /\ pc = "check"
    /\ ~can_fetch(rp, url)
    /\ Len(cannot_crawl) < MaxBlocked
    /\ cannot_crawl' =
          Append(cannot_crawl, [url |-> url, reason |-> BlockedReason])
    /\ pc' = "loop"
    /\ url' = None
    /\ html' = None
    /\ dequeued' = None
    /\ UNCHANGED <<domains, to_crawl, crawled_links, pages, cur, rp, todo, web, deny,
                   runs, fetched, refetched, failures, resumed, entered, atCrash>>

\* crawl_domain, lines 213-216: get_all_links answers; the loop over
\* set(all_links) is about to start
Fetch(outcome) ==
    /\ pc = "check"
    /\ can_fetch(rp, url)
    /\ html' = get_html(url, outcome)
    /\ fetched' = fetched \cup {url}
    /\ refetched' = IF url \in fetched THEN refetched \cup {url} ELSE refetched
    /\ todo' = get_all_links(html', netloc(cur))
    /\ outcome # "ok" => failures < MaxFailures
    /\ failures' = IF outcome = "ok" THEN failures ELSE failures + 1
    /\ pc' = IF todo' = {} THEN "record" ELSE "links"
    /\ UNCHANGED <<domains, to_crawl, crawled_links, pages, cannot_crawl, cur,
                   rp, url, web, deny, runs, dequeued, resumed, entered,
                   atCrash>>

\* crawl_domain, lines 218-221: one iteration of "for url in set(all_links)",
\* which rebinds the local variable url; the set gives its elements in an
\* order the code does not choose
AddLink(link) ==
    /\ pc = "links"
    /\ link \in todo
    /\ url' = link
    /\ to_crawl' = IF ~url_exists_in_to_crawl(link)
                      /\ ~url_exists_in_crawled(link)
                   THEN add_url_to_table(to_crawl, link)
                   ELSE to_crawl
    /\ todo' = todo \ {link}
    /\ pc' = IF todo' = {} THEN "record" ELSE "links"
    /\ UNCHANGED <<domains, crawled_links, pages, cannot_crawl, cur, rp, html,
                   web, deny, runs, fetched, refetched, dequeued, failures,
                   resumed, entered, atCrash>>

\* crawl_domain, lines 223-225 (when nothing is left to write, url and html
\* are forgotten, as above)
Record ==
    /\ pc = "record"
    /\ IF ~url_exists_in_crawled(url)
       THEN /\ crawled_links' = add_url_to_table(crawled_links, url)
            /\ pc' = "page"
            /\ UNCHANGED <<url, html, dequeued>>
       ELSE /\ pc' = "loop"
            /\ url' = None
            /\ html' = None
            /\ dequeued' = None
            /\ UNCHANGED crawled_links
    /\ UNCHANGED <<domains, to_crawl, pages, cannot_crawl, cur, rp, todo, web,
                   deny, runs, fetched, refetched, failures, resumed, entered,
                   atCrash>>

\* crawl_domain, line 226
StorePage ==
    /\ pc = "page"
    /\ pages' = add_page(pages, url, html)
    /\ pc' = "loop"
    /\ url' = None
    /\ html' = None
    /\ dequeued' = None
    /\ UNCHANGED <<domains, to_crawl, crawled_links, cannot_crawl, cur, rp,
                   todo, web, deny, runs, fetched, refetched, failures,
                   resumed, entered, atCrash>>

\* crawl_domain, lines 232-235, and crawl, lines 262-263
FinishDomain ==
    /\ pc = "loop"
    /\ ~any_left_to_crawl
    /\ domains' = set_crawled(domains, cur)
    /\ pc' = "select"
    /\ UNCHANGED <<to_crawl, crawled_links, pages, cannot_crawl, cur, rp, url,
                   html, todo, web, deny, runs, fetched, refetched, dequeued, failures, resumed, entered,
                   atCrash>>

\* the process dies (a signal, an exception of the store or of rp.read):
\* the locals are gone, the store stays
Kill ==
    /\ Running
    /\ runs < MaxRuns
    /\ pc' = "killed"
    /\ cur' = None
    /\ rp' = {}
    /\ url' = None
    /\ html' = None
    /\ todo' = {}
    /\ dequeued' = None
    /\ atCrash' = {to_crawl[i] : i \in DOMAIN to_crawl}
                      \cup (IF dequeued = None THEN {} ELSE {dequeued})
    /\ UNCHANGED <<domains, to_crawl, crawled_links, pages, cannot_crawl, web,
                   deny, runs, fetched, refetched, failures, resumed, entered>>

\* the steps of the running process
Step ==
    \/ Return
    \/ EnterDomain
    \/ LoadRobots
    \/ RobotsError
    \/ Dequeue
    \/ Blocked
    \/ \E outcome \in Outcomes : Fetch(outcome)
    \/ \E link \in URLs : AddLink(link)
    \/ Record
    \/ StorePage
    \/ FinishDomain

Next ==
    \/ \E seeds \in SeedLists : Crawl(seeds)
    \/ Step
    \/ Kill

Spec == Init /\ [][Next]_vars

\* the process, once started, keeps running its code (nothing in it waits),
\* and a stopped process is started again while a run is left; the kills and
\* the failures of rp.read() are steps of Step or Kill that no fairness
\* forces
FairSpec ==
    /\ Init
    /\ [][Next]_vars
    /\ WF_vars(Step)
    /\ WF_vars(\E seeds \in SeedLists : Crawl(seeds))

\* ------------------------------------------------------------------------
\* Properties
\* ------------------------------------------------------------------------
ToCrawlSet == {to_crawl[i] : i \in DOMAIN to_crawl}
CrawledSet == {crawled_links[i] : i \in DOMAIN crawled_links}
BlockedSet == {cannot_crawl[i].url : i \in DOMAIN cannot_crawl}
PageUrls == {pages[i].url : i \in DOMAIN pages}

\* C1: no URL is at the same time in to_crawl and in crawled_links.
C1_PendingVisitedDisjoint == ToCrawlSet \cap CrawledSet = {}

\* C2: over all runs on one store, get_all_links is called at most once on
\* each URL.
C2_FetchedAtMostOnce == refetched = {}

\* C3: every link the link loop of crawl_domain inserts into to_crawl has the
\* netloc of the domain being crawled; a link of another host, a subdomain
\* included, is not inserted.
C3_DomainContainment ==
    [][(pc = "check" \/ pc = "links") =>
         \A i \in DOMAIN to_crawl' :
            i > Len(to_crawl) => netloc(to_crawl'[i]) = netloc(cur)]_vars

\* C3 witness: a page with a link to the subdomain and a link to its own
\* host has been fetched; the second is in to_crawl, the first is not.
C3_Witness ==
    /\ pc = "record"
    /\ Sub \in hrefs(html)
    /\ hrefs(html) \cap ToCrawlSet # {}
    /\ Sub \notin ToCrawlSet

\* C4: a run of crawl that finds a PENDING domain and a non-empty to_crawl
\* adds no second record for a domain and fetches no URL that is in
\* crawled_links.
C4_ResumeNoRefetch ==
    [][/\ \A i, j \in DOMAIN domains' :
             domains'[i].domain = domains'[j].domain => i = j
       /\ (resumed /\ pc = "check" /\ pc' \in {"links", "record"})
             => ~url_exists_in_crawled(url)]_vars

\* C5: after a crash and the restart, every URL that was in to_crawl or
\* dequeued and not yet recorded when the process died is in crawled_links
\* or in cannot_crawl once crawl has returned with every domain CRAWLED.
C5_NoLostFrontier ==
    (pc = "returned" /\ Len(get_pending_domains) = 0)
        => atCrash \subseteq (CrawledSet \cup BlockedSet)

\* C6: the iteration in which the fetch failed records the dequeued URL in
\* crawled_links and adds no record for it to pages.
C6_FailedFetchNoPage ==
    [][(pc \in {"record", "page"} /\ IsFailure(html) /\ pc' = "loop")
          => /\ dequeued \in {crawled_links'[i] : i \in DOMAIN crawled_links'}
             /\ \A i \in DOMAIN pages' :
                   i > Len(pages) => pages'[i].url # dequeued]_vars

\* C7: the loop of crawl_domain, once entered, is left: to_crawl is found
\* empty (or the process is killed).
C7_CrawlDomainTerminates ==
    (pc = "loop") ~> (pc \in {"select", "killed"})

\* C8: in the end-to-end scenario (one run, nothing denied, no failed fetch)
\* /x is never in to_crawl and, when crawl has returned, pages has a record
\* for the root, for /a and for /b, the seed's domain is CRAWLED and to_crawl
\* is empty.
C8_EndToEnd ==
    (web = E2EWeb /\ deny = {} /\ failures = 0 /\ runs = 1
        /\ domains = <<[domain |-> Root, status |-> domains[1].status]>>)
      => /\ Other \notin ToCrawlSet
         /\ pc = "returned" =>
               /\ {Root, PageA, PageB} \subseteq PageUrls
               /\ domains[1].status = "CRAWLED"
               /\ to_crawl = <<>>

\* C9: the step that follows the dequeue of a URL the policy denies is not
\* the fetch, and it leaves a record for the URL with a non-empty reason in
\* cannot_crawl.
C9_DeniedNotFetched ==
    [][(pc = "check" /\ url \in rp)
          => /\ pc' \notin {"links", "record"}
             /\ fetched' = fetched
             /\ pc' = "loop" =>
                   /\ Len(cannot_crawl') = Len(cannot_crawl) + 1
                   /\ cannot_crawl'[Len(cannot_crawl')].url = url
                   /\ cannot_crawl'[Len(cannot_crawl')].reason # ""]_vars

\* C9 witness: a denied URL was dequeued and recorded as blocked without a
\* fetch.
C9_Witness ==
    /\ pc = "loop"
    /\ \E i \in DOMAIN cannot_crawl :
          /\ cannot_crawl[i].url \in rp
          /\ cannot_crawl[i].url \notin fetched
          /\ cannot_crawl[i].reason = BlockedReason

\* C10: a URL the policy denies that an allowed page of the same host links
\* to has no record in pages.
C10_DeniedNoPage ==
    \A u \in deny :
        (\E v \in InHost \ deny : u \in web[v] /\ netloc(u) = netloc(v))
            => u \notin PageUrls

\* the number of records of a collection that hold the url u
Count(table, u) == Cardinality({i \in DOMAIN table : table[i] = u})

\* C11: in the first crawl session on a store, no step inserts into to_crawl
\* a URL that has a record in cannot_crawl.
C11_BlockedNotReenqueued ==
    [][runs = 1 =>
         \A u \in BlockedSet : Count(to_crawl', u) <= Count(to_crawl, u)]_vars

\* C12: a step of a run never changes a domain record whose status is
\* CRAWLED, never enters crawl_domain for that domain and never fetches a URL
\* of its host.
C12_CrawledSeedNoFetch ==
    [][\A i \in DOMAIN domains :
          domains[i].status = "CRAWLED" =>
             /\ i \in DOMAIN domains'
             /\ domains'[i] = domains[i]
             /\ (pc = "select" /\ pc' = "robots") => cur' # domains[i].domain
             /\ (pc = "check" /\ pc' \in {"links", "record"}) =>
                   netloc(url) # netloc(domains[i].domain)]_vars

\* C12 witness: the second call of crawl found the seed's record CRAWLED and
\* has returned without a call of crawl_domain.
C12_Witness ==
    /\ runs = 2
    /\ pc = "returned"
    /\ ~entered
    /\ domains = <<[domain |-> Root, status |-> "CRAWLED"]>>
    /\ fetched # {}

\* C13: the seeding step of crawl_domain leaves to_crawl unchanged when the
\* root URL of the domain is in to_crawl or in crawled_links.
C13_SeedingIdempotent ==
    [][(/\ pc = "select"
        /\ pc' = "robots"
        /\ \/ url_exists_in_to_crawl(cur')
           \/ url_exists_in_crawled(cur'))
          => to_crawl' = to_crawl]_vars

\* C14: the step that follows the request for robots.txt is never the end of
\* crawl with an exception: crawl_domain goes on to its loop (or the process
\* is killed from outside).
C14_RobotsFailurePermissive ==
    [][pc = "robots" => pc' \in {"loop", "killed"}]_vars

\* C15: a step changes the status of a domain record only from PENDING to
\* CRAWLED, only as the step of crawl that follows the return of
\* crawl_domain, with to_crawl empty; no record is removed or renamed; and
\* crawl returns only when no record is PENDING.
C15_StatusTransitions ==
    [][/\ Len(domains') >= Len(domains)
       /\ \A i \in DOMAIN domains :
             /\ domains'[i].domain = domains[i].domain
             /\ domains'[i].status # domains[i].status =>
                   /\ domains[i].status = "PENDING"
                   /\ domains'[i].status = "CRAWLED"
                   /\ pc = "loop" /\ pc' = "select"
                   /\ domains[i].domain = cur
                   /\ to_crawl = <<>> /\ to_crawl' = <<>>
       /\ (pc # "returned" /\ pc' = "returned") =>
             \A i \in DOMAIN domains' : domains'[i].status # "PENDING"]_vars

\* C15 witness: crawl has returned after it set the seed's record to CRAWLED
\* in this run, with pages fetched and to_crawl empty.
C15_Witness ==
    /\ pc = "returned"
    /\ entered
    /\ domains = <<[domain |-> Root, status |-> "CRAWLED"]>>
    /\ to_crawl = <<>>
    /\ Cardinality(fetched) >= 2

\* C16: crawled_links never holds two records with the same URL and no step
\* removes or changes a record of it.
C16_CrawledLinksUniqueKept ==
    [][/\ \A u \in URLs : Count(crawled_links', u) <= 1
       /\ Len(crawled_links') >= Len(crawled_links)
       /\ \A i \in DOMAIN crawled_links :
             crawled_links'[i] = crawled_links[i]]_vars

\* C16 witness: the test of line 223 has found the URL in crawled_links, in
\* an iteration that follows a restart, and crawled_links holds two records.
C16_Witness ==
    /\ pc = "record"
    /\ url_exists_in_crawled(url)
    /\ Len(crawled_links) >= 2
    /\ runs = 2

\* C17: at the end of an iteration whose dequeued URL the policy allowed, the
\* dequeued URL is in crawled_links.
C17_DequeuedRecorded ==
    [][(pc \in {"record", "page"} /\ pc' = "loop")
          => record_exists_in_table(crawled_links', dequeued)]_vars

\* C18: to_crawl never holds two records with the same URL.
C18_ToCrawlUnique == \A u \in URLs : Count(to_crawl, u) <= 1

\* C19: between the dequeue and the fetch, at the policy check, the dequeued
\* URL is not in to_crawl.
C19_RemovedBeforeFetch ==
    pc = "check" => (url = dequeued /\ ~url_exists_in_to_crawl(url))

\* C19 witness: in the run that follows a crash, the seed's root (in the
\* frontier at the crash and inserted again by the seeding step) has been
\* dequeued, other URLs are left in to_crawl, and the policy check is next.
C19_Witness ==
    /\ pc = "check"
    /\ url = Root
    /\ runs = 2
    /\ Root \in atCrash
    /\ to_crawl # <<>>

\* C20: the html of a page record is the document of the record's own url.
C20_PageHtmlOfSameUrl ==
    \A i \in DOMAIN pages :
        pages[i].html[1] = "html" => pages[i].html = Document(pages[i].url)

TypeOK ==
    /\ pc \in {"stopped", "select", "robots", "loop", "check", "links",
               "record", "page",
               "returned", "killed", "aborted"}
    /\ runs \in 0..MaxRuns

====
